---- MODULE Spec2Model ----
(***************************************************************************)
(* A model of monai/metrics/utils.py: do_metric_reduction, get_mask_edges  *)
(* and get_surface_distance.                                               *)
(*                                                                         *)
(* A tensor is a record [shape, data] with data the row-major flattening.  *)
(* A float is a rational [n, d]: d > 0 is the finite value n/d in lowest   *)
(* terms, [0, 0] is NaN and [1, 0] / [-1, 0] are the infinities, so 0/0 is *)
(* NaN as in IEEE 754.  Float rounding is not modelled: a quotient is the  *)
(* exact rational.                                                         *)
(*                                                                         *)
(* pc is the position of the call in progress.  input is a history         *)
(* variable: the caller's tensor as it was passed.  scores is the caller's *)
(* tensor object and f the local name, which aliases it until the dispatch *)
(* rebinds it.  raised is the exception that ended the call, if any.       *)
(* round and first record a second none-reduction of a returned tensor.    *)
(***************************************************************************)
EXTENDS Integers, Sequences, FiniteSets

VARIABLES pc, input, scores, f, nans, not_nans, reduction, raised, round, first,
          seg_pred, seg_gt, label_idx, crop, edges_pred, edges_gt,
          distance_metric, surface_distance

vars == <<pc, input, scores, f, nans, not_nans, reduction, raised, round, first,
          seg_pred, seg_gt, label_idx, crop, edges_pred, edges_gt,
          distance_metric, surface_distance>>

edges_vars == <<seg_pred, seg_gt, label_idx, crop>>
dist_vars == <<distance_metric, surface_distance>>

\* The largest number of elements of a score tensor.
MaxCells == 4

(***************************************************************************)
(* Floats                                                                  *)
(***************************************************************************)
Abs(x) == IF x < 0 THEN -x ELSE x

RECURSIVE GCD(_, _)
GCD(a, b) == IF b = 0 THEN a ELSE GCD(b, a % b)

NaN == [n |-> 0, d |-> 0]
Zero == [n |-> 0, d |-> 1]
One == [n |-> 1, d |-> 1]
FromInt(k) == [n |-> k, d |-> 1]

Sign(x) == IF x < 0 THEN -1 ELSE IF x = 0 THEN 0 ELSE 1

\* n/d for d # 0, in lowest terms with a positive denominator.
Norm(n, d) ==
    LET g == GCD(Abs(n), Abs(d))
    IN  [n |-> Sign(d) * (n \div g) , d |-> Abs(d) \div g]

IsNaN(x) == x.d = 0 /\ x.n = 0

FAdd(a, b) ==
    IF a.d = 0 \/ b.d = 0
    THEN IF a.d = 0 /\ b.d = 0
         THEN (IF a.n = b.n THEN a ELSE NaN)
         ELSE (IF a.d = 0 THEN a ELSE b)
    ELSE Norm(a.n * b.d + b.n * a.d, a.d * b.d)

FDiv(a, b) ==
    IF IsNaN(a) \/ IsNaN(b) THEN NaN
    ELSE IF b.d = 0 THEN (IF a.d = 0 THEN NaN ELSE Zero)
    ELSE IF b.n = 0 THEN [n |-> Sign(a.n), d |-> 0]
    ELSE IF a.d = 0 THEN [n |-> a.n * Sign(b.n), d |-> 0]
    ELSE Norm(a.n * b.d, a.d * b.n)

FGtZero(a) == a.n > 0

RECURSIVE FSum(_)
FSum(s) == IF s = <<>> THEN Zero ELSE FAdd(Head(s), FSum(Tail(s)))

(***************************************************************************)
(* Tensors                                                                 *)
(***************************************************************************)
RECURSIVE Prod(_)
Prod(shape) == IF shape = <<>> THEN 1 ELSE Head(shape) * Prod(Tail(shape))

Tensor(shape, data) == [shape |-> shape, data |-> data]

\* t[i, j] of a rank-2 tensor.
At(t, i, j) == t.data[(i - 1) * t.shape[2] + j]

\* t.sum(dim=1) of a rank-2 tensor: one value per batch row.
SumDim1(t) ==
    Tensor(<<t.shape[1]>>,
           [i \in 1..t.shape[1] |-> FSum([j \in 1..t.shape[2] |-> At(t, i, j)])])

\* t.sum(dim=0): one value per class of a rank-2 tensor, a 0-d tensor for rank 1.
SumDim0(t) ==
    IF Len(t.shape) = 2
    THEN Tensor(<<t.shape[2]>>,
                [j \in 1..t.shape[2] |-> FSum([i \in 1..t.shape[1] |-> At(t, i, j)])])
    ELSE Tensor(<<>>, <<FSum(t.data)>>)

\* t.sum(dim=[0, 1]) of a rank-2 tensor: a 0-d tensor.
SumDim01(t) == Tensor(<<>>, <<FSum(t.data)>>)

\* a / b, elementwise, for tensors of one shape.
TDiv(a, b) == Tensor(a.shape, [k \in 1..Len(a.data) |-> FDiv(a.data[k], b.data[k])])

\* (t > 0).float()
GtZeroFloat(t) ==
    Tensor(t.shape, [k \in 1..Len(t.data) |-> IF FGtZero(t.data[k]) THEN One ELSE Zero])

\* torch.isnan(f)
isnan(t) == Tensor(t.shape, [k \in 1..Len(t.data) |-> IsNaN(t.data[k])])

\* (~nans).float()
NotNansFloat(m) == Tensor(m.shape, [k \in 1..Len(m.data) |-> IF m.data[k] THEN Zero ELSE One])

\* A mask assignment that writes nothing.
MaskedFillSkipped(t, m) == t

\* f[nans] = 0: the tensor after the in-place write.
MaskedFill(t, m) ==
    Tensor(t.shape, [k \in 1..Len(t.data) |-> IF m.data[k] THEN Zero ELSE t.data[k]])

\* The quotient returned where the count is zero too.
WhereUnguarded(cnt, x) == Tensor(IF cnt.shape = <<>> THEN <<1>> ELSE cnt.shape, x.data)

\* torch.where(cnt > 0, x, t_zero) with t_zero = torch.zeros(1): the shapes
\* broadcast, so a 0-d operand gives a tensor of shape [1].
Where(cnt, x) ==
    Tensor(IF cnt.shape = <<>> THEN <<1>> ELSE cnt.shape,
           [k \in 1..Len(cnt.data) |-> IF FGtZero(cnt.data[k]) THEN x.data[k] ELSE Zero])

(***************************************************************************)
(* do_metric_reduction                                                     *)
(***************************************************************************)
Policies == {"none", "mean", "sum", "mean_batch", "sum_batch", "mean_channel", "sum_channel"}

\* MetricReduction(reduction): the enumeration lookup.  An enumeration raises
\* its own ValueError, "'x' is not a valid MetricReduction", for a value that
\* is no member: it names the value and lists nothing.
MetricReduction(r) ==
    IF r \in Policies
    THEN [ok |-> TRUE, member |-> r,
          error |-> [type |-> "none", names_value |-> FALSE, lists_options |-> FALSE]]
    ELSE [ok |-> FALSE, member |-> r,
          error |-> [type |-> "ValueError", names_value |-> TRUE, lists_options |-> FALSE]]

\* The ValueError of the final else branch of the dispatch.
UnsupportedReduction ==
    [type |-> "ValueError", names_value |-> TRUE, lists_options |-> TRUE]

NoError == [type |-> "none", names_value |-> FALSE, lists_options |-> FALSE]

\* One joint mean over both axes.
ReduceMeanJoint(ff, nn) ==
    LET cnt == SumDim01(nn)
    IN  [f |-> Where(cnt, TDiv(SumDim01(ff), cnt)),
         not_nans |-> SumDim0(GtZeroFloat(SumDim1(nn)))]

\* MetricReduction.MEAN: the channel average, then the batch average.
ReduceMean(ff, nn) ==
    LET nn1 == SumDim1(nn)
        f1 == Where(nn1, TDiv(SumDim1(ff), nn1))
        nn2 == SumDim0(GtZeroFloat(nn1))
    IN  [f |-> Where(nn2, TDiv(SumDim0(f1), nn2)), not_nans |-> nn2]

\* A sum over the batch axis only.
ReduceSumBatchOnly(ff, nn) == [f |-> SumDim0(ff), not_nans |-> SumDim0(nn)]

\* MetricReduction.SUM
ReduceSum(ff, nn) == [f |-> SumDim01(ff), not_nans |-> SumDim01(nn)]

\* MetricReduction.MEAN_BATCH
ReduceMeanBatch(ff, nn) ==
    LET cnt == SumDim0(nn)
    IN  [f |-> Where(cnt, TDiv(SumDim0(ff), cnt)), not_nans |-> cnt]

\* MetricReduction.SUM_BATCH
ReduceSumBatch(ff, nn) == [f |-> SumDim0(ff), not_nans |-> SumDim0(nn)]

\* MetricReduction.MEAN_CHANNEL
ReduceMeanChannel(ff, nn) ==
    LET cnt == SumDim1(nn)
    IN  [f |-> Where(cnt, TDiv(SumDim1(ff), cnt)), not_nans |-> cnt]

\* MetricReduction.SUM_CHANNEL
ReduceSumChannel(ff, nn) == [f |-> SumDim1(ff), not_nans |-> SumDim1(nn)]

\* MetricReduction.NONE
ReduceNone(ff, nn) == [f |-> ff, not_nans |-> nn]

\* The dispatch on the policy: the reduced tensor and its not_nans.
Dispatch(r, ff, nn) ==
    CASE r = "mean" -> ReduceMean(ff, nn)
      [] r = "sum" -> ReduceSum(ff, nn)
      [] r = "mean_batch" -> ReduceMeanBatch(ff, nn)
      [] r = "sum_batch" -> ReduceSumBatch(ff, nn)
      [] r = "mean_channel" -> ReduceMeanChannel(ff, nn)
      [] r = "sum_channel" -> ReduceSumChannel(ff, nn)
      [] r = "none" -> ReduceNone(ff, nn)

Unset == Tensor(<<>>, <<>>)
NoArray == [dtype |-> "bool", shape |-> <<>>, data |-> {}]

\* The values of a score: undefined, or one of a few finite scores.
Scores == {NaN, FromInt(0), FromInt(1), FromInt(3), FromInt(4)}

\* The policies a caller passes: the seven members and a value that is none.
PolicyArgs == Policies \cup {"bogus"}

ReduceShapes ==
    {sh \in (1..MaxCells) \X (1..MaxCells) : sh[1] * sh[2] <= MaxCells}

IdleEdges ==
    /\ seg_pred = NoArray /\ seg_gt = NoArray /\ label_idx = 0 /\ crop = FALSE
    /\ edges_pred = NoArray /\ edges_gt = NoArray

IdleDist == distance_metric = "euclidean" /\ surface_distance = <<>>

IdleReduce ==
    /\ input = Unset /\ scores = Unset /\ f = Unset /\ nans = Unset
    /\ not_nans = Unset /\ reduction = "none" /\ raised = NoError
    /\ round = 0 /\ first = [f |-> Unset, not_nans |-> Unset]

\* A call do_metric_reduction(f, reduction) on a caller's tensor of shape
\* [batch, class]; f names the caller's tensor.
InitReduce ==
    /\ pc = "reduce"
    /\ \E sh \in ReduceShapes :
         \E data \in [1..(sh[1] * sh[2]) -> Scores] :
            input = Tensor(sh, data)
    /\ scores = input
    /\ f = input
    /\ nans = Unset
    /\ not_nans = Unset
    /\ reduction \in PolicyArgs
    /\ raised = NoError
    /\ round = 1
    /\ first = [f |-> Unset, not_nans |-> Unset]
    /\ IdleEdges
    /\ IdleDist

\* nans = torch.isnan(f); not_nans = (~nans).float()
NanMask ==
    /\ pc = "reduce"
    /\ nans' = isnan(f)
    /\ not_nans' = NotNansFloat(isnan(f))
    /\ pc' = "fill"
    /\ UNCHANGED <<input, scores, f, reduction, raised, round, first>>
    /\ UNCHANGED <<edges_vars, edges_pred, edges_gt, dist_vars>>

\* The zero fill written to a copy: the caller's tensor keeps its NaN.
ZeroFillCopy ==
    /\ pc = "fill"
    /\ scores' = scores
    /\ f' = MaskedFill(scores, nans)
    /\ pc' = "parse"
    /\ UNCHANGED <<input, nans, not_nans, reduction, raised, round, first>>
    /\ UNCHANGED <<edges_vars, edges_pred, edges_gt, dist_vars>>

\* f[nans] = 0: f is the caller's tensor, written in place.
ZeroFill ==
    /\ pc = "fill"
    /\ scores' = MaskedFill(scores, nans)
    /\ f' = MaskedFill(scores, nans)
    /\ pc' = "parse"
    /\ UNCHANGED <<input, nans, not_nans, reduction, raised, round, first>>
    /\ UNCHANGED <<edges_vars, edges_pred, edges_gt, dist_vars>>

\* reduction = MetricReduction(reduction), which raises for a value that is
\* no member.
ParseReduction ==
    /\ pc = "parse"
    /\ LET m == MetricReduction(reduction)
       IN  /\ pc' = IF m.ok THEN "dispatch" ELSE "raised"
           /\ raised' = m.error
           /\ reduction' = m.member
    /\ UNCHANGED <<input, scores, f, nans, not_nans, round, first>>
    /\ UNCHANGED <<edges_vars, edges_pred, edges_gt, dist_vars>>

\* The if/elif chain and the return: f and not_nans are rebound to the reduced
\* tensors, the caller's tensor is not written again.
Reduce ==
    /\ pc = "dispatch"
    /\ IF reduction \in Policies
       THEN LET r == Dispatch(reduction, f, not_nans)
            IN  /\ f' = r.f
                /\ not_nans' = r.not_nans
                /\ raised' = raised
                /\ pc' = "returned"
       ELSE /\ raised' = UnsupportedReduction
            /\ pc' = "raised"
            /\ UNCHANGED <<f, not_nans>>
    /\ UNCHANGED <<input, scores, nans, reduction, round, first>>
    /\ UNCHANGED <<edges_vars, edges_pred, edges_gt, dist_vars>>

\* The caller reduces the tensor a none-reduction returned once more with
\* policy none: the returned tensor is the caller's own (zero-filled) tensor.
ReduceAgain ==
    /\ pc = "returned"
    /\ reduction = "none"
    /\ round = 1
    /\ first' = [f |-> f, not_nans |-> not_nans]
    /\ round' = 2
    /\ pc' = "reduce"
    /\ UNCHANGED <<input, scores, f, nans, not_nans, reduction, raised>>
    /\ UNCHANGED <<edges_vars, edges_pred, edges_gt, dist_vars>>

NextReduce == NanMask \/ ZeroFill \/ ParseReduction \/ Reduce \/ ReduceAgain

SpecReduce == InitReduce /\ [][NextReduce]_vars

(***************************************************************************)
(* The claims about do_metric_reduction, stated over the caller's original *)
(* tensor (input) in integer arithmetic: a value v is the quotient s / c   *)
(* when v.n * c = s * v.d.                                                 *)
(***************************************************************************)
RECURSIVE SeqSum(_)
SeqSum(s) == IF s = <<>> THEN 0 ELSE Head(s) + SeqSum(Tail(s))

RECURSIVE SeqProd(_)
SeqProd(s) == IF s = <<>> THEN 1 ELSE Head(s) * SeqProd(Tail(s))

Batch == input.shape[1]
Class == input.shape[2]
Defined(i, j) == At(input, i, j) # NaN
InputHasNaN == \E k \in 1..Len(input.data) : input.data[k] = NaN

\* The sum and the number of the non-NaN entries of batch row i, of class j,
\* and of the whole tensor.
RowSum(i) == SeqSum([j \in 1..Class |-> IF Defined(i, j) THEN At(input, i, j).n ELSE 0])
RowCnt(i) == Cardinality({j \in 1..Class : Defined(i, j)})
ColSum(j) == SeqSum([i \in 1..Batch |-> IF Defined(i, j) THEN At(input, i, j).n ELSE 0])
ColCnt(j) == Cardinality({i \in 1..Batch : Defined(i, j)})
AllSum == SeqSum([i \in 1..Batch |-> RowSum(i)])
AllCnt == SeqSum([i \in 1..Batch |-> RowCnt(i)])

IsQuotient(v, s, c) == v.d > 0 /\ v.n * c = s * v.d

\* The rows with a non-NaN entry, and the sum of their row means as the
\* fraction MeanNum / MeanDen.
Rows == Cardinality({i \in 1..Batch : RowCnt(i) > 0})
MeanDen == SeqProd([i \in 1..Batch |-> IF RowCnt(i) > 0 THEN RowCnt(i) ELSE 1])
MeanNum == SeqSum([i \in 1..Batch |->
                      IF RowCnt(i) > 0 THEN RowSum(i) * (MeanDen \div RowCnt(i)) ELSE 0])

Returned(r) == pc = "returned" /\ round = 1 /\ reduction = r

Example == Tensor(<<2, 2>>, <<FromInt(1), NaN, FromInt(3), FromInt(4)>>)

\* C1: policy mean is two-stage: the mean of the non-NaN entries of each batch
\* row (0 for a row without one), then the sum of these row means divided by
\* the number of rows that have a non-NaN entry (0 when there is none);
\* not_nans is that number of rows.  [[1, NaN], [3, 4]] gives 2.25 and 2.
C1_MeanTwoStage ==
    Returned("mean") =>
        /\ Len(f.data) = 1 /\ Len(not_nans.data) = 1
        /\ not_nans.data[1] = FromInt(Rows)
        /\ IF Rows = 0 THEN f.data[1] = Zero
                       ELSE IsQuotient(f.data[1], MeanNum, MeanDen * Rows)
        /\ (input = Example => f.data[1] = [n |-> 9, d |-> 4] /\ not_nans.data[1] = FromInt(2))

C1_Witness ==
    /\ Returned("mean") /\ input = Example
    /\ f.data[1] = [n |-> 9, d |-> 4] /\ not_nans.data[1] = FromInt(2)

\* C2: zero-guard.  Under mean, mean_batch and mean_channel an output cell
\* whose not-nan count is 0 is 0 (never NaN), and a cell whose count is
\* positive is the sum of its non-NaN contributing entries divided by the
\* count (for mean the contributing entries are the row means).  An all-NaN
\* tensor reduces under mean_batch to zeros with not_nans all zero.
C2_ZeroGuard ==
    /\ Returned("mean_batch") =>
          /\ f.shape = <<Class>> /\ not_nans.shape = <<Class>>
          /\ \A j \in 1..Class :
                /\ not_nans.data[j] = FromInt(ColCnt(j))
                /\ IF ColCnt(j) = 0 THEN f.data[j] = Zero
                                    ELSE IsQuotient(f.data[j], ColSum(j), ColCnt(j))
    /\ Returned("mean_channel") =>
          /\ f.shape = <<Batch>> /\ not_nans.shape = <<Batch>>
          /\ \A i \in 1..Batch :
                /\ not_nans.data[i] = FromInt(RowCnt(i))
                /\ IF RowCnt(i) = 0 THEN f.data[i] = Zero
                                    ELSE IsQuotient(f.data[i], RowSum(i), RowCnt(i))
    /\ Returned("mean") =>
          /\ not_nans.data = <<FromInt(Rows)>>
          /\ IF Rows = 0 THEN f.data = <<Zero>>
                         ELSE /\ Len(f.data) = 1
                              /\ IsQuotient(f.data[1], MeanNum, MeanDen * Rows)

C2_Witness ==
    /\ Returned("mean_batch")
    /\ Class > 1
    /\ \A k \in 1..Len(input.data) : input.data[k] = NaN
    /\ \A j \in 1..Class : f.data[j] = Zero /\ not_nans.data[j] = Zero

\* C3: the sum policies treat NaN as absent.  sum returns the sum of all
\* non-NaN entries with not_nans their number; sum_batch does so per class
\* over axis 0, sum_channel per batch row over axis 1.  [[1, NaN], [3, 4]]
\* under sum gives 8 with not_nans 3.
C3_SumPolicies ==
    /\ Returned("sum") =>
          /\ f = Tensor(<<>>, <<FromInt(AllSum)>>)
          /\ not_nans = Tensor(<<>>, <<FromInt(AllCnt)>>)
          /\ (input = Example => f.data[1] = FromInt(8) /\ not_nans.data[1] = FromInt(3))
    /\ Returned("sum_batch") =>
          /\ f = Tensor(<<Class>>, [j \in 1..Class |-> FromInt(ColSum(j))])
          /\ not_nans = Tensor(<<Class>>, [j \in 1..Class |-> FromInt(ColCnt(j))])
    /\ Returned("sum_channel") =>
          /\ f = Tensor(<<Batch>>, [i \in 1..Batch |-> FromInt(RowSum(i))])
          /\ not_nans = Tensor(<<Batch>>, [i \in 1..Batch |-> FromInt(RowCnt(i))])

C3_Witness ==
    /\ Returned("sum") /\ input = Example
    /\ f.data[1] = FromInt(8) /\ not_nans.data[1] = FromInt(3)

\* C4: once the zero fill has run, so before the policy is looked at and
\* whether the call returns or raises, the caller's tensor has its shape,
\* 0 where it held NaN and its own value everywhere else.
C4_CallerTensorZeroFilled ==
    pc \in {"parse", "dispatch", "returned", "raised"} =>
        /\ scores.shape = input.shape
        /\ Len(scores.data) = Len(input.data)
        /\ \A k \in 1..Len(input.data) :
              scores.data[k] = IF input.data[k] = NaN THEN Zero ELSE input.data[k]

C4_Witness ==
    /\ pc = "raised"
    /\ reduction \notin Policies
    /\ \E k \in 1..Len(input.data) : input.data[k] = NaN /\ scores.data[k] = Zero
    /\ \E k \in 1..Len(input.data) : input.data[k] # NaN /\ scores.data[k] = input.data[k]

\* C5: a policy that is none of the seven fails with a ValueError that names
\* the invalid policy and lists the valid options, and nothing is returned.
C5_InvalidPolicyError ==
    /\ (reduction \notin Policies => pc # "returned")
    /\ (pc = "raised" =>
          /\ raised.type = "ValueError"
          /\ raised.names_value
          /\ raised.lists_options)

\* C6 as stated: a second none-reduction of the tensor the first returned
\* returns the same (reduced, not_nans) pair as the first.
C6_NoneIdempotentPair ==
    (pc = "returned" /\ round = 2) => [f |-> f, not_nans |-> not_nans] = first

\* C6 amended: the second none-reduction returns the same reduced tensor as
\* the first, and a not_nans of ones; its not_nans is the first one's exactly
\* when the original tensor held no NaN.
C6_NoneIdempotentReduced ==
    (pc = "returned" /\ round = 2) =>
        /\ f = first.f
        /\ not_nans.shape = first.not_nans.shape
        /\ \A k \in 1..Len(not_nans.data) : not_nans.data[k] = One
        /\ (not_nans = first.not_nans) <=> ~InputHasNaN

C6_Witness ==
    /\ pc = "returned" /\ round = 2
    /\ InputHasNaN
    /\ f = first.f
    /\ not_nans # first.not_nans

(***************************************************************************)
(* Arrays: [dtype, shape, data].  The data of a bool array is the set of   *)
(* the (0-based) index tuples of its true voxels, the data of a labelfield *)
(* the function from index tuples to labels.                               *)
(***************************************************************************)
\* The largest number of voxels of a mask.
MaxVoxels == 9

Array(dtype, shape, data) == [dtype |-> dtype, shape |-> shape, data |-> data]
BoolArray(shape, data) == Array("bool", shape, data)
Size(a) == Prod(a.shape)

\* The index tuples of an array of a shape.
RECURSIVE Coords(_)
Coords(shape) ==
    IF shape = <<>> THEN {<<>>}
    ELSE {<<i>> \o c : i \in 0..(Head(shape) - 1), c \in Coords(Tail(shape))}

\* The position of index tuple c in row-major order.
RECURSIVE Flat(_, _)
Flat(c, shape) ==
    IF shape = <<>> THEN 0
    ELSE Head(c) * Prod(Tail(shape)) + Flat(Tail(c), Tail(shape))

\* np.any(a)
any(a) == a.data # {}

\* a | b and a ^ b of bool arrays of one shape
Or(a, b) == BoolArray(a.shape, a.data \cup b.data)
Xor(a, b) == BoolArray(a.shape, (a.data \ b.data) \cup (b.data \ a.data))

\* np.zeros_like(a) of a bool array
zeros_like(a) == BoolArray(a.shape, {})

\* np.expand_dims(a, 0)
expand_dims(a) == BoolArray(<<1>> \o a.shape, {<<0>> \o c : c \in a.data})

\* np.squeeze(a): every axis of length 1 is removed.
IsNotOne(d) == d # 1
RECURSIVE Squeezed(_, _)
Squeezed(c, shape) ==
    IF shape = <<>> THEN <<>>
    ELSE (IF Head(shape) = 1 THEN <<>> ELSE <<Head(c)>>) \o Squeezed(Tail(c), Tail(shape))
squeeze(a) ==
    BoolArray(SelectSeq(a.shape, IsNotOne), {Squeezed(c, a.shape) : c \in a.data})

\* The sub-array within [start, end) per axis.
SubArray(a, start, end) ==
    BoolArray([ax \in 1..Len(a.shape) |-> end[ax] - start[ax]],
              {[ax \in 1..Len(a.shape) |-> c[ax] - start[ax]] :
                  c \in {d \in a.data : \A ax \in 1..Len(a.shape) :
                                           start[ax] <= d[ax] /\ d[ax] < end[ax]}})

\* generate_spatial_bounding_box(img) of a channel-first image with a true
\* voxel: the tightest box around the true voxels, over the spatial axes.
generate_spatial_bounding_box(img) ==
    LET lo(ax) == CHOOSE v \in {c[ax] : c \in img.data} : \A c \in img.data : v <= c[ax]
        hi(ax) == CHOOSE v \in {c[ax] : c \in img.data} : \A c \in img.data : v >= c[ax]
    IN  [box_start |-> [ax \in 1..(Len(img.shape) - 1) |-> lo(ax + 1)],
         box_end |-> [ax \in 1..(Len(img.shape) - 1) |-> hi(ax + 1) + 1]]

\* SpatialCrop(roi_start, roi_end)(img): the spatial axes of a channel-first
\* image cut to [roi_start, roi_end), every channel kept.
SpatialCrop(roi_start, roi_end, img) ==
    SubArray(img, <<0>> \o roi_start, <<img.shape[1]>> \o roi_end)

\* The index tuples next to c along every axis, inside the array or not.
Neighbours(c) ==
    {[c EXCEPT ![ax] = c[ax] + dl] : ax \in 1..Len(c), dl \in {-1, 1}}

\* scipy's binary_erosion with its defaults: the structuring element of
\* connectivity 1 (a voxel and its neighbours along each axis), one
\* iteration, border_value 0 (a voxel outside the array counts as false).
\* A 0-d array has no axis, so no neighbour.
binary_erosion(a) ==
    BoolArray(a.shape, {c \in a.data : Neighbours(c) \subseteq a.data})

(***************************************************************************)
(* get_mask_edges                                                          *)
(***************************************************************************)
\* seg = seg == label_idx unless seg is a bool array already.
Binarize(seg, idx) ==
    IF seg.dtype = "bool" THEN seg
    ELSE BoolArray(seg.shape, {c \in Coords(seg.shape) : seg.data[c] = idx})

\* np.squeeze(cropper(np.expand_dims(seg, 0))) for the box of the union.
CropToUnion(seg, union) ==
    LET box == generate_spatial_bounding_box(expand_dims(union))
    IN  squeeze(SpatialCrop(box.box_start, box.box_end, expand_dims(seg)))

\* The edges of the ground truth taken against the prediction.
MaskEdgesOfPred(p, g) ==
    [edges_pred |-> Xor(binary_erosion(p), p), edges_gt |-> Xor(binary_erosion(g), p)]

\* edges_pred = binary_erosion(seg_pred) ^ seg_pred, and the same for seg_gt.
MaskEdges(p, g) ==
    [edges_pred |-> Xor(binary_erosion(p), p), edges_gt |-> Xor(binary_erosion(g), g)]

EdgesError == [type |-> "ValueError", names_value |-> FALSE, lists_options |-> FALSE]

\* get_mask_edges(seg_pred, seg_gt, label_idx, crop): what it raises, or the
\* two edge arrays it returns.
get_mask_edges(sp, sg, idx, cr) ==
    IF Size(sp) = 0 \/ sp.shape # sg.shape
    THEN [raised |-> EdgesError, edges_pred |-> NoArray, edges_gt |-> NoArray]
    ELSE LET p == Binarize(sp, idx)
             g == Binarize(sg, idx)
         IN  IF cr /\ ~any(Or(p, g))
             THEN [raised |-> NoError, edges_pred |-> zeros_like(p),
                   edges_gt |-> zeros_like(g)]
             ELSE LET pc2 == IF cr THEN CropToUnion(p, Or(p, g)) ELSE p
                      gc2 == IF cr THEN CropToUnion(g, Or(p, g)) ELSE g
                      e == MaskEdges(pc2, gc2)
                  IN  [raised |-> NoError, edges_pred |-> e.edges_pred,
                       edges_gt |-> e.edges_gt]

\* The shapes of a mask: rank 1 or 2, at most MaxVoxels voxels.
MaskShapes ==
    {<<n>> : n \in 1..MaxVoxels}
        \cup {sh \in (1..MaxVoxels) \X (1..MaxVoxels) : sh[1] * sh[2] <= MaxVoxels}

Mirror(P, sh) == {[ax \in 1..Len(sh) |-> sh[ax] - 1 - c[ax]] : c \in P}

\* The second mask of a pair: empty, full, or the first one mirrored.
Companions(P, sh) == {{}, Coords(sh), Mirror(P, sh)}

\* How a pattern is passed: as a bool array, or as a labelfield holding label
\* 1 on the pattern and label bg elsewhere, with the label_idx of the call.
Encodings ==
    {[dtype |-> "bool", bg |-> 0, idx |-> 1], [dtype |-> "int", bg |-> 0, idx |-> 1],
     [dtype |-> "int", bg |-> 2, idx |-> 1], [dtype |-> "int", bg |-> 2, idx |-> 2]}

Encode(enc, sh, P) ==
    Array(enc.dtype, sh,
          IF enc.dtype = "bool" THEN P
          ELSE [c \in Coords(sh) |-> IF c \in P THEN 1 ELSE enc.bg])

\* A call get_mask_edges(seg_pred, seg_gt, label_idx, crop).
InitEdges ==
    /\ pc = "edges"
    /\ \E sh \in MaskShapes, enc \in Encodings :
          \E P \in SUBSET Coords(sh) :
             /\ seg_pred = Encode(enc, sh, P)
             /\ label_idx = enc.idx
             /\ \/ \E Q \in Companions(P, sh) : seg_gt = Encode(enc, sh, Q)
                \/ /\ enc.dtype = "bool" /\ P = {}
                   /\ seg_gt = BoolArray(sh \o <<1>>, {})
    /\ crop \in BOOLEAN
    /\ edges_pred = NoArray
    /\ edges_gt = NoArray
    /\ IdleReduce
    /\ IdleDist

GetMaskEdges ==
    /\ pc = "edges"
    /\ LET r == get_mask_edges(seg_pred, seg_gt, label_idx, crop)
       IN  /\ raised' = r.raised
           /\ edges_pred' = r.edges_pred
           /\ edges_gt' = r.edges_gt
           /\ pc' = IF r.raised = NoError THEN "edges_returned" ELSE "edges_raised"
    /\ UNCHANGED <<input, scores, f, nans, not_nans, reduction, round, first>>
    /\ UNCHANGED <<edges_vars, dist_vars>>

NextEdges == GetMaskEdges

SpecEdges == InitEdges /\ [][NextEdges]_vars

\* The voxels of the binarized source: the true ones of a bool array, the
\* ones labelled label_idx of a labelfield.
Source(seg) ==
    IF seg.dtype = "bool" THEN seg.data
    ELSE {c \in Coords(seg.shape) : seg.data[c] = label_idx}

\* A source voxel that one erosion step removes: it lies at the border of
\* the array or has a neighbour along some axis outside the source.
Exposed(seg, c) == \E m \in Neighbours(c) : m \notin Source(seg)

\* C9: with crop=false each returned boundary mask has the shape of its
\* source and implies it voxel by voxel: a boundary voxel is a voxel of the
\* binarized source, namely one that a single erosion step removes.
C9_EdgesWithinSource ==
    (pc = "edges_returned" /\ ~crop) =>
        /\ edges_pred.shape = seg_pred.shape
        /\ edges_gt.shape = seg_gt.shape
        /\ edges_pred.data \subseteq Source(seg_pred)
        /\ edges_gt.data \subseteq Source(seg_gt)
        /\ edges_pred.data = {c \in Source(seg_pred) : Exposed(seg_pred, c)}
        /\ edges_gt.data = {c \in Source(seg_gt) : Exposed(seg_gt, c)}

\* A labelfield with a third label whose boundary is a proper, non-empty part
\* of the source, for both masks.
C9_Witness ==
    /\ pc = "edges_returned" /\ ~crop
    /\ seg_pred.dtype = "int"
    /\ Len(seg_pred.shape) = 2
    /\ \E c \in Coords(seg_pred.shape) : seg_pred.data[c] \notin {0, label_idx}
    /\ edges_pred.data # {} /\ edges_pred.data # Source(seg_pred)
    /\ edges_pred.data \subseteq Source(seg_pred)
    /\ edges_gt.data # {} /\ edges_gt.data # Source(seg_gt)
    /\ edges_gt.data \subseteq Source(seg_gt)

SourceUnion == BoolArray(seg_pred.shape, Source(seg_pred) \cup Source(seg_gt))
UnionBox == generate_spatial_bounding_box(expand_dims(SourceUnion))

\* C10: when the union of the two masks has a true voxel, the boundary masks
\* returned with crop=true have the rank of the inputs and the shape of the
\* joint bounding box, and each is the crop=false boundary mask restricted to
\* that box.
C10_CropIsRestriction ==
    (pc = "edges_returned" /\ crop /\ any(SourceUnion)) =>
        LET full == get_mask_edges(seg_pred, seg_gt, label_idx, FALSE)
        IN  /\ Len(edges_pred.shape) = Len(seg_pred.shape)
            /\ Len(edges_gt.shape) = Len(seg_gt.shape)
            /\ edges_pred = SubArray(full.edges_pred, UnionBox.box_start, UnionBox.box_end)
            /\ edges_gt = SubArray(full.edges_gt, UnionBox.box_start, UnionBox.box_end)

\* The same for the boxes with every extent above 1.
CropIsRestrictionOfWideBox ==
    (pc = "edges_returned" /\ crop /\ any(SourceUnion)) =>
        ((\A ax \in 1..Len(seg_pred.shape) :
             UnionBox.box_end[ax] - UnionBox.box_start[ax] > 1)
            => C10_CropIsRestriction)

(***************************************************************************)
(* get_surface_distance.  A distance is [inf, sq]: infinite, or the square *)
(* root of sq (the chamfer transforms return whole numbers d, sq = d * d). *)
(***************************************************************************)
Inf == [inf |-> TRUE, sq |-> 0]
Root(sq) == [inf |-> FALSE, sq |-> sq]

Min(S) == CHOOSE m \in S : \A x \in S : m <= x
Max(S) == CHOOSE m \in S : \A x \in S : m >= x

\* distance_transform_edt(~edges_gt) at voxel c: the Euclidean distance to
\* the nearest true voxel of edges_gt.
distance_transform_edt(eg, c) ==
    Root(Min({SeqSum([ax \in 1..Len(c) |-> (c[ax] - g[ax]) * (c[ax] - g[ax])]) :
                 g \in eg.data}))

\* distance_transform_cdt(~edges_gt, metric) at voxel c: the chessboard or
\* the taxicab distance to the nearest true voxel of edges_gt.
distance_transform_cdt(eg, metric, c) ==
    LET d == IF metric = "chessboard"
             THEN Min({Max({Abs(c[ax] - g[ax]) : ax \in 1..Len(c)}) : g \in eg.data})
             ELSE Min({SeqSum([ax \in 1..Len(c) |-> Abs(c[ax] - g[ax])]) : g \in eg.data})
    IN  Root(d * d)

\* np.ones_like(edges_gt) at voxel c.
OnesLikeAt(eg, c) == Root(1)

\* np.inf * np.ones_like(edges_gt) at voxel c.
InfLikeAt(eg, c) == Inf

\* The true voxels S of a bool array of a shape in row-major order.
RECURSIVE RowMajor(_, _)
RowMajor(S, shape) ==
    IF S = {} THEN <<>>
    ELSE LET c == CHOOSE x \in S : \A y \in S : Flat(x, shape) <= Flat(y, shape)
         IN  <<c>> \o RowMajor(S \ {c}, shape)

Metrics == {"euclidean", "chessboard", "taxicab"}

MetricError == [type |-> "ValueError", names_value |-> TRUE, lists_options |-> FALSE]

\* dis at voxel c, for an implemented metric.
Dis(eg, metric, c) ==
    IF ~any(eg) THEN InfLikeAt(eg, c)
    ELSE IF metric = "euclidean" THEN distance_transform_edt(eg, c)
    ELSE distance_transform_cdt(eg, metric, c)

\* dis[edges_pred]: dis at the true voxels of edges_pred, in row-major order.
Sample(ep, eg, metric) ==
    LET at == RowMajor(ep.data, ep.shape)
    IN  [i \in 1..Len(at) |-> Dis(eg, metric, at[i])]

\* The metric checked before the masks are looked at.
get_surface_distance_checked_first(ep, eg, metric) ==
    IF metric \notin Metrics THEN [raised |-> MetricError, surface_distance |-> <<>>]
    ELSE IF ~any(ep) THEN [raised |-> NoError, surface_distance |-> <<>>]
    ELSE [raised |-> NoError,
          surface_distance |-> Sample(ep, eg, metric)]

\* get_surface_distance(edges_pred, edges_gt, distance_metric=metric): what
\* it raises, or dis[edges_pred].  label_idx and crop are not read.
get_surface_distance(ep, eg, metric) ==
    IF ~any(ep) THEN [raised |-> NoError, surface_distance |-> <<>>]
    ELSE IF any(eg) /\ metric \notin Metrics
         THEN [raised |-> MetricError, surface_distance |-> <<>>]
         ELSE [raised |-> NoError,
               surface_distance |-> Sample(ep, eg, metric)]

\* The metrics a caller passes: the three implemented and one that is not.
MetricArgs == Metrics \cup {"cosine"}

\* A call get_surface_distance(edges_pred, edges_gt, ...) on two bool arrays
\* of one shape.
InitDist ==
    /\ pc = "dist"
    /\ \E sh \in MaskShapes :
          \E P \in SUBSET Coords(sh) :
             \E Q \in Companions(P, sh) :
                \/ edges_pred = BoolArray(sh, P) /\ edges_gt = BoolArray(sh, Q)
                \/ edges_pred = BoolArray(sh, Q) /\ edges_gt = BoolArray(sh, P)
    /\ distance_metric \in MetricArgs
    /\ surface_distance = <<>>
    /\ seg_pred = NoArray /\ seg_gt = NoArray /\ label_idx = 0 /\ crop = FALSE
    /\ IdleReduce

GetSurfaceDistance ==
    /\ pc = "dist"
    /\ LET r == get_surface_distance(edges_pred, edges_gt, distance_metric)
       IN  /\ raised' = r.raised
           /\ surface_distance' = r.surface_distance
           /\ pc' = IF r.raised = NoError THEN "dist_returned" ELSE "dist_raised"
    /\ UNCHANGED <<input, scores, f, nans, not_nans, reduction, round, first>>
    /\ UNCHANGED <<edges_vars, edges_pred, edges_gt, distance_metric>>

NextDist == GetSurfaceDistance

SpecDist == InitDist /\ [][NextDist]_vars

DistEnded == pc \in {"dist_returned", "dist_raised"}

AllInfinite ==
    /\ Len(surface_distance) = Cardinality(edges_pred.data)
    /\ \A i \in 1..Len(surface_distance) : surface_distance[i].inf

\* C7: with no true voxel in boundary_pred the result is the empty sequence,
\* whatever boundary_gt is; with a true voxel in boundary_pred and none in
\* boundary_gt it is one +infinity per true voxel of boundary_pred.
C7_EmptyMaskCases ==
    DistEnded =>
        /\ edges_pred.data = {} => (pc = "dist_returned" /\ surface_distance = <<>>)
        /\ (edges_pred.data # {} /\ edges_gt.data = {}) =>
              (pc = "dist_returned" /\ AllInfinite)

C7_Witness ==
    /\ pc = "dist_returned"
    /\ Cardinality(edges_pred.data) > 1
    /\ edges_gt.data = {}
    /\ AllInfinite

\* C8 as stated: a metric that is none of euclidean, chessboard, taxicab
\* makes the call fail with a ValueError for every pair of boundary masks.
C8_UnknownMetricAlwaysRaises ==
    (DistEnded /\ distance_metric \notin Metrics) =>
        (pc = "dist_raised" /\ raised.type = "ValueError")

\* C8 amended: such a metric makes the call fail with a ValueError when both
\* boundary masks have a true voxel; when boundary_pred has none the call
\* returns the empty sequence, and when only boundary_gt has none it returns
\* one +infinity per true voxel of boundary_pred.
C8_UnknownMetricRaisesOnNonEmpty ==
    (DistEnded /\ distance_metric \notin Metrics) =>
        /\ (edges_pred.data # {} /\ edges_gt.data # {}) =>
              (pc = "dist_raised" /\ raised.type = "ValueError")
        /\ edges_pred.data = {} => (pc = "dist_returned" /\ surface_distance = <<>>)
        /\ (edges_pred.data # {} /\ edges_gt.data = {}) =>
              (pc = "dist_returned" /\ AllInfinite)

C8_Witness ==
    /\ pc = "dist_raised"
    /\ distance_metric \notin Metrics
    /\ raised.type = "ValueError"
    /\ edges_pred.data # {} /\ edges_gt.data # {}

\* A voxel of boundary_pred that is a voxel of boundary_gt is at distance 0,
\* under each of the three metrics.
CoincidentVoxelAtZero ==
    (pc = "dist_returned" /\ edges_gt.data # {}) =>
        LET at == RowMajor(edges_pred.data, edges_pred.shape)
        IN  \A i \in 1..Len(surface_distance) :
                at[i] \in edges_gt.data <=> surface_distance[i] = Root(0)

====
